---- MODULE Spec2Model ----
(***************************************************************************)
(* FinStock-AI dashboard front end: the chart module (charts.js) with the  *)
(* return-histogram binning, modelled over a reduced binary floating-point *)
(* format that rounds as IEEE-754 does (round to nearest, ties to even,    *)
(* gradual underflow, overflow to Infinity, NaN).                          *)
(***************************************************************************)
EXTENDS Integers, Sequences, FiniteSets, TLC

(***************************************************************************)
(* Bounds of the model.                                                    *)
(***************************************************************************)
\* significand bits of the floating-point format (53 in a JS number)
Precision == 5
\* binades above the subnormal range (2046 in a JS number)
MaxExp == 3
\* exponent of 1.0 above the smallest subnormal (1074 in a JS number)
OneExp == 3
\* longest dailyReturns array the binning is run over
MaxLen == 3
\* length of the arrays passed in the chart life cycle
LifeLen == 2
\* Chart objects constructed in one run
MaxCharts == 2
\* largest sample count for which the bin-count policy is evaluated
MaxSamples == 10000

(***************************************************************************)
(* JS numbers.  A finite number is an integer count of Units (the smallest *)
(* subnormal), with at most Precision significant bits; Inf, -Inf and NaN  *)
(* are codes outside the finite range.                                     *)
(***************************************************************************)
Pow2(n) == 2 ^ n
One == Pow2(OneExp)
MaxFinite == (Pow2(Precision) - 1) * Pow2(MaxExp)
Inf == Pow2(Precision + MaxExp)
NaN == 2 * Inf
Abs(x) == IF x < 0 THEN -x ELSE x

IsFinite(x) == x # NaN /\ x # Inf /\ x # -Inf
Floats ==
    {s * m * Pow2(e) : s \in {-1, 1}, m \in 0..(Pow2(Precision) - 1), e \in 0..MaxExp}

\* round-half-even of the non-negative rational x / y to an integer
RoundHalfEven(x, y) ==
    LET q == x \div y
        r == x % y
    IN  IF 2 * r < y THEN q
        ELSE IF 2 * r > y THEN q + 1
        ELSE IF q % 2 = 0 THEN q ELSE q + 1

\* the binade of the non-negative rational mag / b < Inf: the least k from k
\* on with mag / b < 2^(Precision + k)
RECURSIVE ExponentFrom(_, _, _)
ExponentFrom(mag, b, k) ==
    IF mag < b * Pow2(Precision + k) THEN k ELSE ExponentFrom(mag, b, k + 1)

\* the number nearest the rational a / b Units (b > 0), as every arithmetic
\* operation of a JS number delivers it
Round(a, b) ==
    LET mag == Abs(a)
        sgn == IF a < 0 THEN -1 ELSE 1
    IN  IF mag >= b * Inf THEN sgn * Inf
        ELSE LET e == ExponentFrom(mag, b, 0)
                 n == RoundHalfEven(mag, b * Pow2(e))
             IN  IF n * Pow2(e) > MaxFinite THEN sgn * Inf ELSE sgn * n * Pow2(e)

\* x + y
FAdd(x, y) ==
    IF x = NaN \/ y = NaN THEN NaN
    ELSE IF ~IsFinite(x) THEN (IF ~IsFinite(y) /\ y # x THEN NaN ELSE x)
    ELSE IF ~IsFinite(y) THEN y
    ELSE Round(x + y, 1)

\* x - y
FSub(x, y) == FAdd(x, IF y = NaN THEN NaN ELSE -y)

\* i * x for an integer i >= 0 (an exactly represented loop counter)
FMulInt(i, x) ==
    IF x = NaN THEN NaN
    ELSE IF ~IsFinite(x) THEN (IF i = 0 THEN NaN ELSE x)
    ELSE Round(i * x, 1)

\* x / n for an integer n > 0 (an exactly represented count)
FDivInt(x, n) ==
    IF x = NaN THEN NaN
    ELSE IF ~IsFinite(x) THEN x
    ELSE Round(x, n)

\* x / y
FDiv(x, y) ==
    IF x = NaN \/ y = NaN THEN NaN
    ELSE IF ~IsFinite(x) THEN
        (IF ~IsFinite(y) THEN NaN ELSE IF (x > 0) = (y >= 0) THEN Inf ELSE -Inf)
    ELSE IF ~IsFinite(y) THEN 0
    ELSE IF y = 0 THEN (IF x = 0 THEN NaN ELSE IF x > 0 THEN Inf ELSE -Inf)
    ELSE IF y > 0 THEN Round(x * One, y) ELSE Round(-(x * One), -y)

\* comparisons: every comparison with NaN is false
FLess(x, y) == x # NaN /\ y # NaN /\ x < y
FEq(x, y) == x # NaN /\ y # NaN /\ x = y
FLeq(x, y) == x # NaN /\ y # NaN /\ x <= y

\* Math.floor, Math.min and Math.max of two numbers
MathFloor(x) == IF IsFinite(x) THEN (x \div One) * One ELSE x
MathMin2(x, y) == IF x = NaN \/ y = NaN THEN NaN ELSE IF x < y THEN x ELSE y
MathMax2(x, y) == IF x = NaN \/ y = NaN THEN NaN ELSE IF x > y THEN x ELSE y

\* an integer as a JS number
FromInt(k) == k * One

\* Math.min(...arr) and Math.max(...arr) of a non-empty array of finite numbers
\* a minimum that trusts the array to arrive sorted
FirstElement(arr) == arr[1]

RECURSIVE MathMin(_)
MathMin(arr) ==
    IF Len(arr) = 1 THEN arr[1] ELSE MathMin2(arr[1], MathMin(Tail(arr)))
RECURSIVE MathMax(_)
MathMax(arr) ==
    IF Len(arr) = 1 THEN arr[1] ELSE MathMax2(arr[1], MathMax(Tail(arr)))

\* x.toFixed(2): the number of hundredths nearest x, the larger on a tie
ToFixed2(x) ==
    IF x = NaN THEN [text |-> "NaN", hundredths |-> 0]
    ELSE IF x = Inf THEN [text |-> "Infinity", hundredths |-> 0]
    ELSE IF x = -Inf THEN [text |-> "-Infinity", hundredths |-> 0]
    ELSE [text |-> "digits", hundredths |-> (2 * 100 * x + One) \div (2 * One)]

(***************************************************************************)
(* The histogram binning of createOrUpdateReturnHistogram.                 *)
(***************************************************************************)
\* Math.ceil(Math.sqrt(n) / 2): the least k with 2k >= sqrt(n).  The square
\* root of a count is correctly rounded and halving is exact, so the JS value
\* is this integer.
RECURSIVE CeilHalfSqrtFrom(_, _)
CeilHalfSqrtFrom(n, k) == IF 4 * k * k >= n THEN k ELSE CeilHalfSqrtFrom(n, k + 1)
CeilHalfSqrt(n) == CeilHalfSqrtFrom(n, 0)

IntMin(a, b) == IF a < b THEN a ELSE b
IntMax(a, b) == IF a > b THEN a ELSE b

\* a bin count without the upper cap
NumBinsUncapped(n) == IntMax(10, CeilHalfSqrt(n))

\* numBins for n samples
NumBins(n) == IntMin(20, IntMax(10, CeilHalfSqrt(n)))

\* binWidth
BinWidth(range, numBins) == IF FLess(0, range) THEN FDivInt(range, numBins) ELSE One

\* binStart and binEnd of bin i
BinStart(minReturn, binWidth, i) == FAdd(minReturn, FMulInt(i, binWidth))
BinEnd(binStart, maxReturn, binWidth, numBins, i) ==
    IF i = numBins - 1 THEN maxReturn ELSE FAdd(binStart, binWidth)

\* a bin index without the clamp to 0..numBins-1
UnclampedBinIndex(ret, minReturn, maxReturn, binWidth, numBins) ==
    MathFloor(FDiv(FSub(ret, minReturn), binWidth))

\* the bin index the forEach body computes for ret when binWidth is not 0
BinIndex(ret, minReturn, maxReturn, binWidth, numBins) ==
    LET floored == MathFloor(FDiv(FSub(ret, minReturn), binWidth))
        clamped == MathMax2(0, MathMin2(FromInt(numBins - 1), floored))
    IN  IF FEq(ret, maxReturn) /\ FLess(clamped, FromInt(numBins - 1))
        THEN FromInt(numBins - 1)
        ELSE clamped

\* bins after bins[binIndex]++ : an index past the end grows the array and
\* stores NaN (undefined + 1) there; an index that is no array index (NaN, or
\* Skipped for an iteration that returns early) leaves the elements alone
Skipped == -One
Increment(bins, binIndex) ==
    LET len == Cardinality(DOMAIN bins)
        at == binIndex \div One
    IN  IF ~IsFinite(binIndex) \/ at < 0 THEN bins
        ELSE IF at < len THEN [bins EXCEPT ![at] = IF @ = NaN THEN NaN ELSE @ + 1]
        ELSE [i \in 0..at |-> IF i < len THEN bins[i] ELSE NaN]

\* the element one iteration of dailyReturns.forEach increments
SampleBin(ret, minReturn, maxReturn, binWidth, numBins) ==
    IF binWidth = 0
    THEN (IF FEq(ret, minReturn) THEN 0 ELSE Skipped)
    ELSE BinIndex(ret, minReturn, maxReturn, binWidth, numBins)

\* one iteration of dailyReturns.forEach
CountSample(bins, ret, minReturn, maxReturn, binWidth, numBins) ==
    Increment(bins, SampleBin(ret, minReturn, maxReturn, binWidth, numBins))

\* dailyReturns.forEach from element k on
RECURSIVE CountSamples(_, _, _, _, _, _, _)
CountSamples(bins, dailyReturns, k, minReturn, maxReturn, binWidth, numBins) ==
    IF k > Len(dailyReturns) THEN bins
    ELSE CountSamples(
             CountSample(bins, dailyReturns[k], minReturn, maxReturn, binWidth, numBins),
             dailyReturns, k + 1, minReturn, maxReturn, binWidth, numBins)

\* Array(numBins).fill(0)
ZeroBins(numBins) == [i \in 0..(numBins - 1) |-> 0]

\* everything the binning computes for a non-empty array of finite numbers
Histogram(dailyReturns) ==
    LET minReturn == MathMin(dailyReturns)
        maxReturn == MathMax(dailyReturns)
        numBins == NumBins(Len(dailyReturns))
        range == FSub(maxReturn, minReturn)
        binWidth == BinWidth(range, numBins)
        binStart == [i \in 0..(numBins - 1) |-> BinStart(minReturn, binWidth, i)]
    IN  [ computed |-> TRUE,
          minReturn |-> minReturn,
          maxReturn |-> maxReturn,
          numBins |-> numBins,
          binWidth |-> binWidth,
          bins |-> CountSamples(ZeroBins(numBins), dailyReturns, 1,
                                minReturn, maxReturn, binWidth, numBins),
          binIndex |-> [k \in 1..Len(dailyReturns) |->
                          SampleBin(dailyReturns[k], minReturn, maxReturn,
                                    binWidth, numBins)],
          labels |-> [i \in 0..(numBins - 1) |-> ToFixed2(binStart[i])],
          binEdges |-> [i \in 0..(numBins - 1) |->
                          [ start |-> binStart[i],
                            end |-> BinEnd(binStart[i], maxReturn, binWidth, numBins, i) ]] ]

(***************************************************************************)
(* The chart module: two handles, the Chart objects made so far, and the   *)
(* two canvases of the page.                                               *)
(***************************************************************************)
VARIABLES
    priceChart,      \* handle: the id of a Chart, or Null
    histogramChart,  \* handle: the id of a Chart, or Null
    chartCount,      \* number of Chart objects constructed so far; the last one's id
    liveCharts,      \* the Charts constructed and not yet destroyed: [id, canvas]
    canvasPresent,   \* canvasPresent[c]: document.getElementById finds canvas c
    canvasText,      \* canvasText[c]: the message last drawn on canvas c by fillText
    historicalData,  \* argument of the last createOrUpdatePriceChart call
    priceData,       \* labels and data points that call computed
    dailyReturns,    \* argument of the last createOrUpdateReturnHistogram call
    hist,            \* the binning that call computed
    lastCall,        \* the operation executed last and the outcome of its library calls
    analysisData,    \* data.daily_returns_histogram of the analysis being rendered
    sampleCount,     \* bin-count policy: a sample count dailyReturns.length
    numBins          \* bin-count policy: the numBins computed for it, or Null


\* the page script: main.js, or its later revision part_000
VARIABLES
    build,           \* which revision of the page script the page runs
    searchValue,     \* searchInput.value, a string of characters
    searchTimer,     \* the id setTimeout returned last, or Null while undefined
    timers,          \* the pending timeouts: [id, query, remaining]
    timerCount,      \* number of timeouts set so far
    sinceInput,      \* clock ticks since the last input event, up to DebounceTicks
    searches,        \* the search requests in flight: [id, query]
    searchCount,     \* number of search requests issued so far
    resultsShown,    \* searchResults.style.display is 'block'
    resultsContent,  \* what searchResults holds and the search it came from
    currentSelectedSymbol,  \* part_000 only
    requests,        \* the analysis requests in flight: [id, symbol]
    requestCount,    \* number of analysis requests issued so far
    loaderShown,     \* the loader overlay is visible
    alerts,          \* number of alert() boxes shown so far
    widgets,         \* widgets[w]: the data widget w shows
    rendering,       \* the analysis data whose histogram is still to be rendered
    intradaySocket,  \* the id of a socket, or Null
    sockets,         \* sockets[id]: the WebSocket objects constructed so far
    lastEvent        \* the handler that ran last and what it was given

pageVars == <<build, searchValue, searchTimer, timers, timerCount, sinceInput, searches,
              searchCount, resultsShown, resultsContent, currentSelectedSymbol, requests,
              requestCount, loaderShown, alerts, widgets, rendering, intradaySocket,
              sockets, lastEvent>>

vars == <<priceChart, histogramChart, chartCount, liveCharts, canvasPresent, canvasText,
          historicalData, priceData, dailyReturns, hist, lastCall, analysisData,
          sampleCount, numBins, pageVars>>
chartVars == <<priceChart, histogramChart, chartCount, liveCharts, canvasPresent,
               canvasText, historicalData, priceData, dailyReturns, hist, lastCall>>
policyVars == <<analysisData, sampleCount, numBins>>

Null == 0
PriceCanvas == "priceHistoryChart"
HistogramCanvas == "returnHistogramChart"
Canvases == {PriceCanvas, HistogramCanvas}

NoText == ""
NoHistoricalText == "No historical data available."
PriceErrorText == "Error creating price chart."
NoReturnText == "No return data available."
HistogramErrorText == "Error creating histogram."

\* a JS value that is null/undefined or an array
NullArray == [isNull |-> TRUE, items |-> <<>>]
ArrayOf(s) == [isNull |-> FALSE, items |-> s]
\* !a || a.length === 0
IsEmpty(a) == a.isNull \/ Len(a.items) = 0

NoHistogram == [computed |-> FALSE]
NoPriceData == [computed |-> FALSE]
NoCall == [op |-> "none", destroyThrew |-> FALSE]

(***************************************************************************)
(* Inputs.                                                                 *)
(***************************************************************************)
ArraysOver(S, maxLen) == UNION {[1..n -> S] : n \in 1..maxLen}

\* the samples the binning is run over: the largest finite numbers, zero and
\* the numbers next to it, two numbers that use every significand bit, and
\* multiples of one half
HalfSteps == {-20, -19, -2, -1, 1, 2, 3, 4, 6, 15, 19, 20}
SampleReturns ==
    {-MaxFinite, MaxFinite, -1, 0, 1, 5, 3 - Pow2(Precision), Pow2(Precision) - 1}
        \cup {h * (One \div 2) : h \in HalfSteps}

\* every non-empty array of these samples, up to MaxLen long
ReturnArrays == {ArrayOf(s) : s \in ArraysOver(SampleReturns, MaxLen)}

\* the arrays of the chart life cycle: null, empty, and the arrays of LifeLen
\* samples over two numbers
LifeSamples == {-One, 3 * One}
LifeReturns ==
    {NullArray, ArrayOf(<<>>)} \cup {ArrayOf(s) : s \in [1..LifeLen -> LifeSamples]}
LifePrices == {NullArray, ArrayOf(<<>>),
               ArrayOf(<<[date |-> "2024-01-01", close |-> 5 * One],
                         [date |-> "2024-01-02", close |-> 6 * One]>>)}

\* a destroy that releases nothing
DestroyNothing(live, id, throws) == live

\* chart.destroy(): the library releases the Chart, or throws and leaves it
Destroy(live, id, throws) == IF throws THEN live ELSE {ch \in live : ch.id # id}

\* a destroy that forgets to null the handle
DestroyKeepsHandle(handle, live, throws) ==
    IF handle # Null
    THEN [handle |-> handle, live |-> Destroy(live, handle, throws)]
    ELSE [handle |-> handle, live |-> live]

\* the handle and the live Charts after destroyPriceChart / destroyHistogramChart:
\* the handle is nulled on the normal path and in the catch block alike
DestroyHandle(handle, live, throws) ==
    IF handle # Null
    THEN [handle |-> Null, live |-> Destroy(live, handle, throws)]
    ELSE [handle |-> handle, live |-> live]

\* labels and dataPoints of createOrUpdatePriceChart
PriceSeries(data) ==
    [ computed |-> TRUE,
      labels |-> [k \in 1..Len(data) |-> data[k].date],
      dataPoints |-> [k \in 1..Len(data) |-> data[k].close] ]

CallRecord(op, destroyThrew) == [op |-> op, destroyThrew |-> destroyThrew]

destroyPriceChart(throws) ==
    LET d == DestroyHandle(priceChart, liveCharts, throws)
    IN  /\ throws => priceChart # Null
        /\ priceChart' = d.handle
        /\ liveCharts' = d.live
        /\ lastCall' = CallRecord("destroyPriceChart", throws)
        /\ UNCHANGED <<histogramChart, chartCount, canvasPresent, canvasText,
                       historicalData, priceData, dailyReturns, hist, policyVars>>

destroyHistogramChart(throws) ==
    LET d == DestroyHandle(histogramChart, liveCharts, throws)
    IN  /\ throws => histogramChart # Null
        /\ histogramChart' = d.handle
        /\ liveCharts' = d.live
        /\ lastCall' = CallRecord("destroyHistogramChart", throws)
        /\ UNCHANGED <<priceChart, chartCount, canvasPresent, canvasText,
                       historicalData, priceData, dailyReturns, hist, policyVars>>

\* a destroyAllCharts that forgets the histogram
DestroyPriceOnly(priceThrows, histogramThrows) ==
    ~histogramThrows /\ destroyPriceChart(priceThrows)

destroyAllCharts(priceThrows, histogramThrows) ==
    LET p == DestroyHandle(priceChart, liveCharts, priceThrows)
        h == DestroyHandle(histogramChart, p.live, histogramThrows)
    IN  /\ priceThrows => priceChart # Null
        /\ histogramThrows => histogramChart # Null
        /\ priceChart' = p.handle
        /\ histogramChart' = h.handle
        /\ liveCharts' = h.live
        /\ lastCall' = CallRecord("destroyAllCharts", priceThrows \/ histogramThrows)
        /\ UNCHANGED <<chartCount, canvasPresent, canvasText,
                       historicalData, priceData, dailyReturns, hist, policyVars>>

createOrUpdatePriceChart(data, destroyThrows, chartThrows) ==
    /\ destroyThrows => canvasPresent[PriceCanvas] /\ priceChart # Null
    /\ chartThrows => canvasPresent[PriceCanvas] /\ ~IsEmpty(data)
    /\ historicalData' = data
    /\ lastCall' = CallRecord("createOrUpdatePriceChart", destroyThrows)
    /\ IF ~canvasPresent[PriceCanvas]
       THEN /\ priceData' = NoPriceData
            /\ UNCHANGED <<priceChart, liveCharts, chartCount, canvasText>>
       ELSE LET d == DestroyHandle(priceChart, liveCharts, destroyThrows)
            IN  IF IsEmpty(data)
                THEN /\ priceChart' = d.handle
                     /\ liveCharts' = d.live
                     /\ priceData' = NoPriceData
                     /\ canvasText' = [canvasText EXCEPT ![PriceCanvas] = NoHistoricalText]
                     /\ UNCHANGED chartCount
                ELSE /\ priceData' = PriceSeries(data.items)
                     /\ IF chartThrows
                        THEN /\ priceChart' = d.handle
                             /\ liveCharts' = d.live
                             /\ canvasText' = [canvasText EXCEPT ![PriceCanvas] = PriceErrorText]
                             /\ UNCHANGED chartCount
                        ELSE /\ chartCount < MaxCharts
                             /\ chartCount' = chartCount + 1
                             /\ priceChart' = chartCount + 1
                             /\ liveCharts' =
                                    d.live \cup {[id |-> chartCount + 1, canvas |-> PriceCanvas]}
                             /\ canvasText' = [canvasText EXCEPT ![PriceCanvas] = NoText]
    /\ UNCHANGED <<histogramChart, canvasPresent, dailyReturns, hist, policyVars>>

createOrUpdateReturnHistogram(returns, destroyThrows, chartThrows) ==
    /\ destroyThrows => canvasPresent[HistogramCanvas] /\ histogramChart # Null
    /\ chartThrows => canvasPresent[HistogramCanvas] /\ ~IsEmpty(returns)
    /\ dailyReturns' = returns
    /\ lastCall' = CallRecord("createOrUpdateReturnHistogram", destroyThrows)
    /\ IF ~canvasPresent[HistogramCanvas]
       THEN /\ hist' = NoHistogram
            /\ UNCHANGED <<histogramChart, liveCharts, chartCount, canvasText>>
       ELSE LET d == DestroyHandle(histogramChart, liveCharts, destroyThrows)
            IN  IF IsEmpty(returns)
                THEN /\ histogramChart' = d.handle
                     /\ liveCharts' = d.live
                     /\ hist' = NoHistogram
                     /\ canvasText' = [canvasText EXCEPT ![HistogramCanvas] = NoReturnText]
                     /\ UNCHANGED chartCount
                ELSE /\ hist' = Histogram(returns.items)
                     /\ IF chartThrows
                        THEN /\ histogramChart' = d.handle
                             /\ liveCharts' = d.live
                             /\ canvasText' =
                                    [canvasText EXCEPT ![HistogramCanvas] = HistogramErrorText]
                             /\ UNCHANGED chartCount
                        ELSE /\ chartCount < MaxCharts
                             /\ chartCount' = chartCount + 1
                             /\ histogramChart' = chartCount + 1
                             /\ liveCharts' =
                                    d.live \cup {[id |-> chartCount + 1, canvas |-> HistogramCanvas]}
                             /\ canvasText' = [canvasText EXCEPT ![HistogramCanvas] = NoText]
    /\ UNCHANGED <<priceChart, canvasPresent, historicalData, priceData, policyVars>>

(***************************************************************************)
(* The page script: its state when DOMContentLoaded has run.               *)
(***************************************************************************)
Builds == {"main.js", "part_000"}
Widgets == {"stockInfo", "statistics", "predictions", "news", "intraday"}
NoData == [from |-> "none", symbol |-> <<>>]
NoResults == [kind |-> "none", search |-> Null]
NoEvent == [op |-> "none"]
NotRendering ==
    [symbol |-> <<>>, historical_data |-> NullArray, daily_returns_histogram |-> NullArray]

PageLoaded(b) ==
    /\ build = b
    /\ searchValue = <<>>
    /\ searchTimer = Null
    /\ timers = {}
    /\ timerCount = 0
    /\ sinceInput = 0
    /\ searches = {}
    /\ searchCount = 0
    /\ resultsShown = FALSE
    /\ resultsContent = NoResults
    /\ currentSelectedSymbol = <<>>
    /\ requests = {}
    /\ requestCount = 0
    /\ loaderShown = FALSE
    /\ alerts = 0
    /\ widgets = [w \in Widgets |-> NoData]
    /\ rendering = NotRendering
    /\ intradaySocket = Null
    /\ sockets = <<>>
    /\ lastEvent = NoEvent

Init ==
    /\ priceChart = Null
    /\ histogramChart = Null
    /\ chartCount = 0
    /\ liveCharts = {}
    /\ canvasPresent \in [Canvases -> BOOLEAN]
    /\ canvasText = [c \in Canvases |-> NoText]
    /\ historicalData = NullArray
    /\ priceData = NoPriceData
    /\ dailyReturns = NullArray
    /\ hist = NoHistogram
    /\ lastCall = NoCall
    /\ analysisData = NullArray
    /\ sampleCount = 0
    /\ numBins = Null
    /\ PageLoaded("main.js")

Next ==
    \/ UNCHANGED pageVars /\ \E t \in BOOLEAN : destroyPriceChart(t)
    \/ UNCHANGED pageVars /\ \E t \in BOOLEAN : destroyHistogramChart(t)
    \/ UNCHANGED pageVars /\ \E t, u \in BOOLEAN : destroyAllCharts(t, u)
    \/ UNCHANGED pageVars /\ \E d \in LifePrices, t, u \in BOOLEAN :
           createOrUpdatePriceChart(d, t, u)
    \/ UNCHANGED pageVars /\ \E r \in LifeReturns, t, u \in BOOLEAN :
           createOrUpdateReturnHistogram(r, t, u)

Spec == Init /\ [][Next]_vars

(***************************************************************************)
(* The binning alone: one call of createOrUpdateReturnHistogram on a fresh *)
(* page that has both canvases, over every array of the sample numbers.    *)
(***************************************************************************)
InitBinning ==
    /\ priceChart = Null
    /\ histogramChart = Null
    /\ chartCount = 0
    /\ liveCharts = {}
    /\ canvasPresent = [c \in Canvases |-> TRUE]
    /\ canvasText = [c \in Canvases |-> NoText]
    /\ historicalData = NullArray
    /\ priceData = NoPriceData
    /\ dailyReturns = NullArray
    /\ hist = NoHistogram
    /\ lastCall = NoCall
    /\ analysisData \in ReturnArrays
    /\ sampleCount = 0
    /\ numBins = Null
    /\ PageLoaded("main.js")

\* if (data.daily_returns_histogram) createOrUpdateReturnHistogram(...)
RenderReturns ==
    /\ lastCall = NoCall
    /\ \E u \in BOOLEAN : createOrUpdateReturnHistogram(analysisData, FALSE, u)
    /\ UNCHANGED pageVars

NextBinning == RenderReturns

SpecBinning == InitBinning /\ [][NextBinning]_vars

(***************************************************************************)
(* The bin-count policy alone: numBins for every sample count up to        *)
(* MaxSamples.                                                             *)
(***************************************************************************)
InitPolicy ==
    /\ priceChart = Null
    /\ histogramChart = Null
    /\ chartCount = 0
    /\ liveCharts = {}
    /\ canvasPresent = [c \in Canvases |-> TRUE]
    /\ canvasText = [c \in Canvases |-> NoText]
    /\ historicalData = NullArray
    /\ priceData = NoPriceData
    /\ dailyReturns = NullArray
    /\ hist = NoHistogram
    /\ lastCall = NoCall
    /\ analysisData = NullArray
    /\ sampleCount \in 1..MaxSamples
    /\ numBins = Null
    /\ PageLoaded("main.js")

ComputeNumBins ==
    /\ numBins = Null
    /\ numBins' = NumBins(sampleCount)
    /\ UNCHANGED <<sampleCount, analysisData, chartVars, pageVars>>

SpecPolicy == InitPolicy /\ [][ComputeNumBins]_vars

(***************************************************************************)
(* The page script: search box, analysis requests and the intraday socket. *)
(***************************************************************************)
\* WebSocket objects constructed in one run
MaxSockets == 3
\* analysis requests issued in one run
MaxRequests == 3
\* search requests issued in one run
MaxSearches == 2
\* timeouts set in one run
MaxTimers == 2
\* clock ticks that make up the debounce delay of 300 ms
DebounceTicks == 2

searchVars == <<searchValue, searchTimer, timers, timerCount, sinceInput, searches,
                searchCount, resultsShown, resultsContent>>
socketVars == <<intradaySocket, sockets>>
allChartVars == <<chartVars, policyVars>>

\* String.prototype.trim over strings of the characters " ", "a", "b", "c"
RECURSIVE TrimStart(_)
TrimStart(str) == IF str # <<>> /\ Head(str) = " " THEN TrimStart(Tail(str)) ELSE str
RECURSIVE TrimEnd(_)
TrimEnd(str) ==
    IF str # <<>> /\ str[Len(str)] = " " THEN TrimEnd(SubSeq(str, 1, Len(str) - 1)) ELSE str
Trim(str) == TrimEnd(TrimStart(str))

\* String.prototype.toUpperCase
UpperChar(ch) == CASE ch = "a" -> "A" [] ch = "b" -> "B" [] ch = "c" -> "C" [] OTHER -> ch
ToUpperCase(str) == [i \in DOMAIN str |-> UpperChar(str[i])]

\* str.split(' ')[0]
RECURSIVE FirstToken(_)
FirstToken(str) ==
    IF str = <<>> \/ Head(str) = " " THEN <<>> ELSE <<Head(str)>> \o FirstToken(Tail(str))

\* what the user can make the search box hold
InputValues == { <<>>, <<"a">>, <<" ", "a", " ">>, <<"a", "b">>, <<"a", "b", " ">>,
                 <<"a", "b", "c">> }

\* the stocks a search returns
Stocks == { [symbol |-> <<"A", "B">>, name |-> <<"A", "b">>],
            [symbol |-> <<"C">>, name |-> <<"C", "o">>] }

\* `${stock.name} (${stock.symbol})`
StockLabel(stock) == stock.name \o <<" ", "(">> \o stock.symbol \o <<")">>

\* the body of a successful analysis response for a symbol
AnalysisOf(symbol, withCharts) ==
    [ symbol |-> symbol,
      historical_data |->
          IF withCharts
          THEN ArrayOf(<<[date |-> "2024-01-01", close |-> Len(symbol) * One],
                         [date |-> "2024-01-02", close |-> 6 * One]>>)
          ELSE NullArray,
      daily_returns_histogram |->
          IF withCharts THEN ArrayOf(<<-One, Len(symbol) * One>>) ELSE NullArray ]

\* a clearTimeout that cancels nothing
ClearNothing(pending, id) == pending

\* clearTimeout(id)
ClearTimeout(pending, id) == {t \in pending : t.id # id}

\* a fetchFullAnalysis without the guard on the symbol
FetchAnySymbol(symbol) ==
    [requests |-> requests \cup {[id |-> requestCount + 1, symbol |-> symbol]},
     requestCount |-> requestCount + 1,
     loaderShown |-> TRUE]

\* the synchronous part of fetchFullAnalysis(symbol): the request issued and
\* the loader shown; part_000 returns at once for an empty symbol
FetchFullAnalysis(symbol) ==
    IF build = "part_000" /\ symbol = <<>>
    THEN [requests |-> requests, requestCount |-> requestCount, loaderShown |-> loaderShown]
    ELSE [requests |-> requests \cup {[id |-> requestCount + 1, symbol |-> symbol]},
          requestCount |-> requestCount + 1,
          loaderShown |-> TRUE]

\* new WebSocket(wsUrl) with its four listeners
NewSocket(symbol) ==
    [symbol |-> symbol, readyState |-> "CONNECTING", onclose |-> TRUE, established |-> FALSE]

\* socket.close(): a socket not yet closed starts closing
Close(socket) ==
    [socket EXCEPT !.readyState = IF @ \in {"CONNECTING", "OPEN"} THEN "CLOSING" ELSE @]

\* connectWebSocket(symbol)
ConnectWebSocket(symbol) ==
    LET previous ==
            IF intradaySocket # Null /\ sockets[intradaySocket].readyState # "CLOSED"
            THEN [sockets EXCEPT ![intradaySocket] = Close([@ EXCEPT !.onclose = FALSE])]
            ELSE sockets
    IN  [sockets |-> Append(previous, NewSocket(symbol)), intradaySocket |-> Len(sockets) + 1]

\* fetchFullAnalysis(symbol); connectWebSocket(symbol)
Analyze(symbol) ==
    LET f == FetchFullAnalysis(symbol)
        c == ConnectWebSocket(symbol)
    IN  /\ requestCount < MaxRequests
        /\ Len(sockets) < MaxSockets
        /\ requests' = f.requests
        /\ requestCount' = f.requestCount
        /\ loaderShown' = f.loaderShown
        /\ sockets' = c.sockets
        /\ intradaySocket' = c.intradaySocket

Idle == rendering = NotRendering

\* the input listener of the search box, the box now holding value
InputEvent(value) ==
    LET query == Trim(value)
        cleared == ClearTimeout(timers, searchTimer)
    IN  /\ Idle
        /\ value # searchValue
        /\ searchValue' = value
        /\ sinceInput' = 0
        /\ currentSelectedSymbol' =
               IF build = "part_000" THEN <<>> ELSE currentSelectedSymbol
        /\ lastEvent' = [op |-> "input", query |-> query]
        /\ IF Len(query) < 2
           THEN /\ resultsShown' = FALSE
                /\ timers' = cleared
                /\ UNCHANGED <<searchTimer, timerCount>>
           ELSE /\ timerCount < MaxTimers
                /\ timerCount' = timerCount + 1
                /\ searchTimer' = timerCount + 1
                /\ timers' = cleared \cup {[id |-> timerCount + 1, query |-> query,
                                            remaining |-> DebounceTicks]}
                /\ UNCHANGED resultsShown
        /\ UNCHANGED <<searches, searchCount, resultsContent, requests, requestCount,
                       loaderShown, alerts, widgets, rendering, socketVars, build,
                       allChartVars>>

\* a tick of the clock
Tick ==
    /\ Idle
    /\ sinceInput < DebounceTicks \/ \E t \in timers : t.remaining > 0
    /\ sinceInput' = IF sinceInput < DebounceTicks THEN sinceInput + 1 ELSE sinceInput
    /\ timers' = {[t EXCEPT !.remaining = IF @ > 0 THEN @ - 1 ELSE 0] : t \in timers}
    /\ UNCHANGED <<searchValue, searchTimer, timerCount, searches, searchCount, resultsShown,
                   resultsContent, currentSelectedSymbol, requests, requestCount,
                   loaderShown, alerts, widgets, rendering, socketVars, build, lastEvent,
                   allChartVars>>

\* a timeout expires: fetchSearchQuery(query) issues its request
TimerFires(t) ==
    /\ Idle
    /\ t \in timers
    /\ t.remaining = 0
    /\ searchCount < MaxSearches
    /\ timers' = timers \ {t}
    /\ searchCount' = searchCount + 1
    /\ searches' = searches \cup {[id |-> searchCount + 1, query |-> t.query]}
    /\ lastEvent' = [op |-> "fetchSearchQuery", query |-> t.query]
    /\ UNCHANGED <<searchValue, searchTimer, timerCount, sinceInput, resultsShown,
                   resultsContent, currentSelectedSymbol, requests, requestCount,
                   loaderShown, alerts, widgets, rendering, socketVars, build,
                   allChartVars>>

\* the response of a search request arrives: displaySearchResults, or the
\* catch block of fetchSearchQuery
SearchResponse(search, kind) ==
    /\ Idle
    /\ search \in searches
    /\ searches' = searches \ {search}
    /\ resultsContent' = [kind |-> kind, search |-> search.id]
    /\ resultsShown' = TRUE
    /\ lastEvent' = [op |-> "searchResponse", query |-> search.query]
    /\ UNCHANGED <<searchValue, searchTimer, timers, timerCount, sinceInput, searchCount,
                   currentSelectedSymbol, requests, requestCount, loaderShown, alerts,
                   widgets, rendering, socketVars, build, allChartVars>>

\* a click on an item of the result list: selectStock(stock)
SelectStock(stock) ==
    /\ Idle
    /\ resultsShown
    /\ resultsContent.kind = "stocks"
    /\ stock.symbol # <<>>
    /\ searchValue' = StockLabel(stock)
    /\ currentSelectedSymbol' =
           IF build = "part_000" THEN stock.symbol ELSE currentSelectedSymbol
    /\ resultsShown' = FALSE
    /\ Analyze(stock.symbol)
    /\ lastEvent' = [op |-> "selectStock", symbol |-> stock.symbol]
    /\ UNCHANGED <<searchTimer, timers, timerCount, sinceInput, searches, searchCount,
                   resultsContent, alerts, widgets, rendering, build, allChartVars>>

\* a click outside the search box and the result list
ClickElsewhere ==
    /\ Idle
    /\ resultsShown
    /\ resultsShown' = FALSE
    /\ lastEvent' = [op |-> "click"]
    /\ UNCHANGED <<searchValue, searchTimer, timers, timerCount, sinceInput, searches,
                   searchCount, resultsContent, currentSelectedSymbol, requests,
                   requestCount, loaderShown, alerts, widgets, rendering, socketVars, build,
                   allChartVars>>

\* part_000: Enter in the search box
EnterKey ==
    LET symbolToAnalyze ==
            IF currentSelectedSymbol # <<>> THEN currentSelectedSymbol
            ELSE ToUpperCase(Trim(searchValue))
    IN  /\ Idle
        /\ build = "part_000"
        /\ resultsShown' = FALSE
        /\ lastEvent' = [op |-> "enter", symbol |-> FirstToken(symbolToAnalyze)]
        /\ IF symbolToAnalyze # <<>>
           THEN /\ currentSelectedSymbol' = FirstToken(symbolToAnalyze)
                /\ Analyze(FirstToken(symbolToAnalyze))
           ELSE UNCHANGED <<currentSelectedSymbol, requests, requestCount, loaderShown,
                            socketVars>>
        /\ UNCHANGED <<searchValue, searchTimer, timers, timerCount, sinceInput, searches,
                       searchCount, resultsContent, alerts, widgets, rendering, build,
                       allChartVars>>

\* part_000: handleDateChange
DateChange ==
    LET f == FetchFullAnalysis(currentSelectedSymbol)
    IN  /\ Idle
        /\ build = "part_000"
        /\ lastEvent' = [op |-> "dateChange", symbol |-> currentSelectedSymbol]
        /\ IF currentSelectedSymbol # <<>>
           THEN /\ requestCount < MaxRequests
                /\ requests' = f.requests
                /\ requestCount' = f.requestCount
                /\ loaderShown' = f.loaderShown
           ELSE UNCHANGED <<requests, requestCount, loaderShown>>
        /\ UNCHANGED <<searchVars, currentSelectedSymbol, alerts, widgets, rendering,
                       socketVars, build, allChartVars>>

\* the text sections a response populates before an exception, or all of them
Populated(symbol, sections) ==
    [w \in Widgets |-> IF w \in sections THEN [from |-> "analysis", symbol |-> symbol]
                       ELSE widgets[w]]

FailureKinds == {"network", "status", "empty", "throws"}

\* the sections populated before the response of the kind fails or ends:
\* updateStockInfo, updateStatistics, updateAIPredictions (which also calls
\* updateIntradayWidget) and updateNews; a response of kind "throws" has
\* ai_predictions without short_term, so updateAIPredictions throws
SectionsOf(kind) ==
    CASE kind \in {"network", "status", "empty"} -> {}
      [] kind = "throws" -> {"stockInfo", "statistics"}
      [] OTHER -> Widgets

\* the rest of fetchFullAnalysis when its response arrives and fails: the
\* catch block and the finally block
AnalysisFails(request, kind, priceThrows, histogramThrows) ==
    /\ Idle
    /\ request \in requests
    /\ kind \in FailureKinds
    /\ requests' = requests \ {request}
    /\ widgets' = Populated(request.symbol, SectionsOf(kind))
    /\ alerts' = alerts + 1
    /\ loaderShown' = FALSE
    /\ lastEvent' = [op |-> "analysisFails", symbol |-> request.symbol, kind |-> kind]
    /\ IF build = "main.js"
       THEN destroyAllCharts(priceThrows, histogramThrows)
       ELSE ~priceThrows /\ ~histogramThrows /\ UNCHANGED allChartVars
    /\ UNCHANGED <<searchVars, currentSelectedSymbol, requestCount, rendering, socketVars,
                   build>>

\* the rest of fetchFullAnalysis when its response arrives without the two
\* chart sections
AnalysisText(request) ==
    /\ Idle
    /\ request \in requests
    /\ requests' = requests \ {request}
    /\ widgets' = Populated(request.symbol, Widgets)
    /\ loaderShown' = FALSE
    /\ lastEvent' = [op |-> "analysisText", symbol |-> request.symbol]
    /\ UNCHANGED <<searchVars, currentSelectedSymbol, requestCount, alerts, rendering,
                   socketVars, build, allChartVars>>

\* the rest of fetchFullAnalysis when its response arrives complete, up to
\* and including createOrUpdatePriceChart
AnalysisPopulates(request, destroyThrows, chartThrows) ==
    LET data == AnalysisOf(request.symbol, TRUE)
    IN  /\ Idle
        /\ request \in requests
        /\ chartCount + 2 <= MaxCharts
        /\ requests' = requests \ {request}
        /\ widgets' = Populated(request.symbol, Widgets)
        /\ createOrUpdatePriceChart(data.historical_data, destroyThrows, chartThrows)
        /\ rendering' = data
        /\ lastEvent' = [op |-> "analysisPopulates", symbol |-> request.symbol]
        /\ UNCHANGED <<searchVars, currentSelectedSymbol, requestCount, loaderShown, alerts,
                       socketVars, build>>

\* the same call of fetchFullAnalysis goes on without a break:
\* createOrUpdateReturnHistogram and the finally block
AnalysisCompletes(destroyThrows, chartThrows) ==
    /\ rendering # NotRendering
    /\ createOrUpdateReturnHistogram(rendering.daily_returns_histogram, destroyThrows,
                                     chartThrows)
    /\ rendering' = NotRendering
    /\ loaderShown' = FALSE
    /\ lastEvent' = [op |-> "analysisCompletes", symbol |-> rendering.symbol]
    /\ UNCHANGED <<searchVars, currentSelectedSymbol, requests, requestCount, alerts,
                   widgets, socketVars, build>>

\* the open event of a socket: onopen only logs
SocketOpens(s) ==
    /\ Idle
    /\ s \in DOMAIN sockets
    /\ sockets[s].readyState = "CONNECTING"
    /\ sockets' = [sockets EXCEPT ![s].readyState = "OPEN", ![s].established = TRUE]
    /\ lastEvent' = [op |-> "open", socket |-> s]
    /\ UNCHANGED <<searchVars, currentSelectedSymbol, requests, requestCount, loaderShown,
                   alerts, widgets, rendering, intradaySocket, build, allChartVars>>

MessageKinds == {"update", "badProbability", "noData", "otherType", "invalidJson"}

\* updateIntradayWidget(data) called from onmessage: a probability that is
\* not a number has no toFixed, the TypeError is thrown before any text is
\* written and the catch block of onmessage logs it
UpdateIntradayWidget(s, kind) ==
    IF kind = "update"
    THEN [widgets EXCEPT !["intraday"] = [from |-> "socket", symbol |-> sockets[s].symbol]]
    ELSE widgets

\* a message event of a socket: onmessage
SocketMessage(s, kind) ==
    /\ Idle
    /\ s \in DOMAIN sockets
    /\ sockets[s].readyState = "OPEN"
    /\ widgets' = UpdateIntradayWidget(s, kind)
    /\ lastEvent' = [op |-> "message", socket |-> s, kind |-> kind]
    /\ UNCHANGED <<searchVars, currentSelectedSymbol, requests, requestCount, loaderShown,
                   alerts, rendering, socketVars, build, allChartVars>>

\* the connection of a socket fails (also: close() was called before it was
\* established): the error event, then the close event
SocketFails(s) ==
    /\ Idle
    /\ s \in DOMAIN sockets
    /\ \/ sockets[s].readyState \in {"CONNECTING", "OPEN"}
       \/ sockets[s].readyState = "CLOSING" /\ ~sockets[s].established
    /\ sockets' = [sockets EXCEPT ![s].readyState = "CLOSED"]
    /\ intradaySocket' = Null
    /\ lastEvent' = [op |-> "error", socket |-> s]
    /\ UNCHANGED <<searchVars, currentSelectedSymbol, requests, requestCount, loaderShown,
                   alerts, widgets, rendering, build, allChartVars>>

\* an established connection is closed: the close event, whose listener
\* connectWebSocket may have removed
SocketCloses(s) ==
    /\ Idle
    /\ s \in DOMAIN sockets
    /\ sockets[s].readyState \in {"OPEN", "CLOSING"}
    /\ sockets[s].established
    /\ sockets' = [sockets EXCEPT ![s].readyState = "CLOSED"]
    /\ intradaySocket' = IF sockets[s].onclose THEN Null ELSE intradaySocket
    /\ lastEvent' = [op |-> "close", socket |-> s]
    /\ UNCHANGED <<searchVars, currentSelectedSymbol, requests, requestCount, loaderShown,
                   alerts, widgets, rendering, build, allChartVars>>

\* the page with both canvases, one of the two revisions of the script
InitPage ==
    /\ priceChart = Null
    /\ histogramChart = Null
    /\ chartCount = 0
    /\ liveCharts = {}
    /\ canvasPresent = [c \in Canvases |-> TRUE]
    /\ canvasText = [c \in Canvases |-> NoText]
    /\ historicalData = NullArray
    /\ priceData = NoPriceData
    /\ dailyReturns = NullArray
    /\ hist = NoHistogram
    /\ lastCall = NoCall
    /\ analysisData = NullArray
    /\ sampleCount = 0
    /\ numBins = Null
    /\ \E b \in Builds : PageLoaded(b)

\* the socket: the handlers that call connectWebSocket, what leads to them,
\* and the events of the sockets
NextSocket ==
    \/ \E value \in {<<"a", "b">>} : InputEvent(value)
    \/ Tick
    \/ \E t \in timers : TimerFires(t)
    \/ \E search \in searches : SearchResponse(search, "stocks")
    \/ \E stock \in Stocks : SelectStock(stock)
    \/ EnterKey
    \/ \E s \in DOMAIN sockets : SocketOpens(s)
    \/ \E s \in DOMAIN sockets, kind \in MessageKinds : SocketMessage(s, kind)
    \/ \E s \in DOMAIN sockets : SocketFails(s)
    \/ \E s \in DOMAIN sockets : SocketCloses(s)

SpecSocket == InitPage /\ [][NextSocket]_vars

\* selections of a symbol explored next to the search box
SearchSelections == 1
\* analysis requests explored with their responses
AnalysisRequests == 2

\* Enter analyses nothing: no symbol is selected and the box is blank
EnterIsIdle == currentSelectedSymbol = <<>> /\ Trim(searchValue) = <<>>

\* the search box: every handler that reads or writes the box, the timer
\* or the result list
NextSearch ==
    \/ \E value \in InputValues : InputEvent(value)
    \/ Tick
    \/ \E t \in timers : TimerFires(t)
    \/ \E search \in searches, kind \in {"stocks", "empty", "error"} :
           SearchResponse(search, kind)
    \/ \E stock \in Stocks : requestCount < SearchSelections /\ SelectStock(stock)
    \/ ClickElsewhere
    \/ (requestCount < SearchSelections \/ EnterIsIdle) /\ EnterKey

SpecSearch == InitPage /\ [][NextSearch]_vars

\* the analysis: the handlers that call fetchFullAnalysis, what leads to
\* them, and the responses
NextAnalysis ==
    \/ \E value \in {<<"a", "b">>} : InputEvent(value)
    \/ Tick
    \/ \E t \in timers : TimerFires(t)
    \/ \E search \in searches : SearchResponse(search, "stocks")
    \/ \E stock \in Stocks : requestCount < AnalysisRequests /\ SelectStock(stock)
    \/ (requestCount < AnalysisRequests \/ EnterIsIdle) /\ EnterKey
    \/ (requestCount < AnalysisRequests \/ currentSelectedSymbol = <<>>) /\ DateChange
    \/ \E request \in requests, kind \in FailureKinds, t, u \in BOOLEAN :
           AnalysisFails(request, kind, t, u)
    \/ \E request \in requests : AnalysisText(request)
    \/ \E request \in requests, t, u \in BOOLEAN : AnalysisPopulates(request, t, u)
    \/ \E t, u \in BOOLEAN : AnalysisCompletes(t, u)

SpecAnalysis == InitPage /\ [][NextAnalysis]_vars

(***************************************************************************)
(* Properties.                                                             *)
(***************************************************************************)
\* the last createOrUpdateReturnHistogram call computed a binning
Binned == hist.computed
Samples == dailyReturns.items
LastBin == hist.numBins - 1

\* least and greatest sample, stated without Math.min / Math.max
IsMinSample(x) ==
    (\E k \in DOMAIN Samples : Samples[k] = x) /\ (\A k \in DOMAIN Samples : x <= Samples[k])
IsMaxSample(x) ==
    (\E k \in DOMAIN Samples : Samples[k] = x) /\ (\A k \in DOMAIN Samples : Samples[k] <= x)

\* a count of the counts array as JS compares it: NaN is not >= 0
IsCount(c) == c # NaN /\ c >= 0

RECURSIVE SumUpTo(_, _)
SumUpTo(bins, i) == IF i < 0 THEN 0 ELSE bins[i] + SumUpTo(bins, i - 1)
SumOfBins(bins) == SumUpTo(bins, Cardinality(DOMAIN bins) - 1)

\* the bin a sample was counted in is a bin of the histogram
InSomeBin(b) == IsFinite(b) /\ b >= 0 /\ b \div One <= LastBin

\* Chart id has been constructed and not destroyed
IsLive(live, id) == \E ch \in live : ch.id = id

\* the rearrangements of an array
Rearrangements(s) ==
    {t \in [DOMAIN s -> {s[k] : k \in DOMAIN s}] :
        \A x \in {s[k] : k \in DOMAIN s} :
            Cardinality({k \in DOMAIN s : s[k] = x}) = Cardinality({k \in DOMAIN t : t[k] = x})}

\* C1: for every non-empty array of returns the counts of all bins add up to
\* the number of samples: every sample is counted exactly once.
CountsSumToLength == Binned => SumOfBins(hist.bins) = Len(Samples)

\* C2: when all samples are identical the bin width is 1 and every sample is
\* counted in bin 0, the other bins staying at 0.
DegenerateAllInBinZero ==
    Binned /\ hist.maxReturn = hist.minReturn =>
        /\ hist.binWidth = One
        /\ hist.bins[0] = Len(Samples)
        /\ \A i \in 1..LastBin : hist.bins[i] = 0

\* C3: the first bin starts exactly at the least sample and the last bin ends
\* exactly at the greatest sample.
EdgesAreMinAndMax ==
    Binned =>
        /\ IsMinSample(hist.binEdges[0].start)
        /\ IsMaxSample(hist.binEdges[LastBin].end)

\* C4: every bin has start <= end and every bin ends where the next one
\* starts, also when all samples are identical.
EdgesMonotonicContiguous ==
    Binned =>
        /\ \A i \in 0..LastBin : FLeq(hist.binEdges[i].start, hist.binEdges[i].end)
        /\ \A i \in 0..(LastBin - 1) : FEq(hist.binEdges[i].end, hist.binEdges[i + 1].start)

\* C5: numBins is ceil(sqrt(n) / 2) clamped to 10..20: it lies in 10..20, it
\* is the least k with 2k >= sqrt(n) unless a clamp applies, it is 10 for 4 and
\* for 400 samples and 20 for 10000, and it does not decrease as n grows.
NumBinsPolicy ==
    numBins # Null =>
        /\ numBins \in 10..20
        /\ numBins > 10 => 4 * (numBins - 1) * (numBins - 1) < sampleCount
        /\ numBins < 20 => sampleCount <= 4 * numBins * numBins
        /\ sampleCount \in {4, 400} => numBins = 10
        /\ sampleCount = 10000 => numBins = 20
        /\ sampleCount > 1 => NumBins(sampleCount - 1) <= numBins
NumBinsPolicyWitness == sampleCount = 10000 /\ numBins = 20

\* C6: the binning yields exactly numBins bins: counts, labels and edges all
\* have numBins entries, empty bins included, and every count is >= 0.
BinArraysHaveNumBins ==
    Binned =>
        /\ hist.numBins = NumBins(Len(Samples))
        /\ DOMAIN hist.bins = 0..LastBin
        /\ DOMAIN hist.labels = 0..LastBin
        /\ DOMAIN hist.binEdges = 0..LastBin
        /\ \A i \in DOMAIN hist.bins : IsCount(hist.bins[i])
BinArraysWitness ==
    /\ Binned
    /\ hist.minReturn < hist.maxReturn
    /\ \E i, j \in DOMAIN hist.bins : hist.bins[i] = 0 /\ IsCount(hist.bins[j]) /\ hist.bins[j] > 0
    /\ \E k \in DOMAIN Samples : hist.binIndex[k] = FromInt(LastBin)

\* C7: a sample equal to the greatest sample is counted in the last bin.
MaxSampleInLastBin ==
    Binned => \A k \in DOMAIN Samples :
        IsMaxSample(Samples[k]) => hist.binIndex[k] = FromInt(LastBin)

\* C8: when max > min each sample is counted in the bin of index
\* floor((r - min) / width) clamped to 0..numBins-1, that bin's range contains
\* the sample, and the bins together cover [min, max].
SampleInItsBin ==
    Binned /\ hist.minReturn < hist.maxReturn =>
        /\ \A k \in DOMAIN Samples :
              LET b == hist.binIndex[k]
                  floored == MathFloor(FDiv(FSub(Samples[k], hist.minReturn), hist.binWidth))
              IN  /\ InSomeBin(b)
                  /\ b = MathMax2(0, MathMin2(FromInt(LastBin), floored))
                  /\ FLeq(hist.binEdges[b \div One].start, Samples[k])
                  /\ FLeq(Samples[k], hist.binEdges[b \div One].end)
        /\ FLeq(hist.binEdges[0].start, hist.minReturn)
        /\ FLeq(hist.maxReturn, hist.binEdges[LastBin].end)
        /\ \A i \in 0..(LastBin - 1) : FLeq(hist.binEdges[i + 1].start, hist.binEdges[i].end)

PureFunctionOfSamples ==
    Binned =>
        /\ \A t \in Rearrangements(Samples) :
              LET h == Histogram(t)
              IN  h.binEdges = hist.binEdges /\ h.bins = hist.bins
        /\ \A i \in DOMAIN hist.bins :
              hist.bins[i] = Cardinality({k \in DOMAIN Samples : hist.binIndex[k] = FromInt(i)})
PureFunctionWitness ==
    /\ Binned
    /\ chartCount > 1
    /\ \E k \in DOMAIN Samples : Samples[k] # Samples[1]
    /\ lastCall.op = "createOrUpdateReturnHistogram"

\* the live Charts no handle refers to
Unreferenced == {ch \in liveCharts : ch.id \notin {priceChart, histogramChart}}
\* handle is null or refers to a live Chart on canvas
HandleOwnsChart(handle, canvas, live) ==
    handle # Null => [id |-> handle, canvas |-> canvas] \in live

Connected == {s \in DOMAIN sockets : sockets[s].readyState \in {"CONNECTING", "OPEN"}}

\* C12: at most one of the sockets that connectWebSocket created is
\* CONNECTING or OPEN at any time.
SingleSocket == Cardinality(Connected) <= 1

SocketEvents == {"open", "message", "error", "close"}

\* a step in which a listener of a socket runs that a later call of
\* connectWebSocket has superseded
SupersededSocketEvent ==
    /\ lastEvent' # lastEvent
    /\ lastEvent'.op \in SocketEvents
    /\ lastEvent'.socket < Len(sockets)

\* C18: an event of a superseded socket changes neither intradaySocket nor
\* the intraday widget, and intradaySocket is null only when no socket is
\* CONNECTING or OPEN.
SupersededSocketIsInert ==
    [][/\ SupersededSocketEvent =>
              /\ intradaySocket' = intradaySocket
              /\ widgets'["intraday"] = widgets["intraday"]
       /\ intradaySocket' = Null => Connected' = {}]_vars

\* the messages whose JSON has type 'intraday_update' and a data field
\* that is not empty
IntradayUpdates == {"update", "badProbability"}

\* C14: a message with type 'intraday_update' and non-empty data writes
\* the intraday texts and nothing else; any other message leaves every
\* widget, both chart handles and the socket state unchanged.
MessagePatchesIntradayOnly ==
    [][lastEvent' # lastEvent /\ lastEvent'.op = "message" =>
           /\ UNCHANGED <<priceChart, histogramChart, liveCharts, socketVars, searchVars,
                          requests, loaderShown, alerts>>
           /\ \A w \in Widgets \ {"intraday"} : widgets'[w] = widgets[w]
           /\ IF lastEvent'.kind \in IntradayUpdates
              THEN widgets'["intraday"] =
                       [from |-> "socket", symbol |-> sockets[lastEvent'.socket].symbol]
              ELSE widgets'["intraday"] = widgets["intraday"]]_vars

\* a step in which the input listener of the search box runs
InputStep == lastEvent'.op = "input" /\ searchValue' # searchValue

\* a step in which fetchSearchQuery issues a search
SearchIssued == searches' # searches /\ searches \subseteq searches'

\* C13: an input event cancels the pending timer, so at most one timer is
\* pending and it is the one of the last input event; a query shorter than
\* 2 characters sets no timer and hides the list; a search is issued only by
\* an expired timer, for its query of length >= 2, when the whole delay has
\* passed since the last input event.
DebouncedSearch ==
    [][/\ Cardinality(timers') <= 1
       /\ \A t \in timers' : t.id = searchTimer' /\ t.remaining + sinceInput' = DebounceTicks
       /\ InputStep =>
              /\ searches' = searches
              /\ IF Len(Trim(searchValue')) < 2
                 THEN timers' = {} /\ ~resultsShown'
                 ELSE \E t \in timers' : /\ timers' = {t}
                                         /\ t.query = Trim(searchValue')
                                         /\ t.remaining = DebounceTicks
                                         /\ t \notin timers
       /\ SearchIssued =>
              \E t \in timers :
                  /\ t.remaining = 0
                  /\ sinceInput = DebounceTicks
                  /\ Len(t.query) >= 2
                  /\ t.id = searchTimer
                  /\ searches' = searches \cup {[id |-> searchCount + 1, query |-> t.query]}
                  /\ timers' = {}]_vars

\* C13 witness: a search was issued for the query of the second input event,
\* whose timer replaced the one of the first
DebouncedSearchWitness ==
    /\ lastEvent = [op |-> "fetchSearchQuery", query |-> <<"a", "b", "c">>]
    /\ timerCount = 2
    /\ searchTimer = 2
    /\ timers = {}
    /\ searches = {[id |-> 1, query |-> <<"a", "b", "c">>]}
    /\ sinceInput = DebounceTicks

\* the list is hidden and the last thing the user did was to select a stock
\* or to leave a query shorter than 2 characters in the box
HiddenByUser ==
    /\ ~resultsShown
    /\ \/ lastEvent.op = "selectStock"
       \/ lastEvent.op = "input" /\ Len(lastEvent.query) < 2

\* a step in which the response of a search arrives
ResponseStep == searches' # searches /\ searches' \subseteq searches

\* C20: when no search is in flight the list shown is that of the search
\* issued last, and a response that arrives after the user has selected a
\* stock or shortened the query below 2 characters does not show the list.
ResultsOfCurrentQuery ==
    [][/\ resultsShown' /\ searches' = {} => resultsContent'.search = searchCount'
       /\ HiddenByUser /\ ResponseStep => ~resultsShown']_vars

\* a step in which a call of fetchFullAnalysis reaches its catch block
FailureStep == alerts' # alerts

EarlyFailures == {"network", "status", "empty"}

\* C16: in part_000 a request that fails before any section is populated
\* alerts the user and leaves both chart handles, the charts and all widgets
\* as they were; fetchFullAnalysis with an empty symbol neither shows the
\* loader nor issues a request.
EarlyFailureLeavesDashboard ==
    [][build = "part_000" =>
           /\ FetchFullAnalysis(<<>>) = [requests |-> requests,
                                         requestCount |-> requestCount,
                                         loaderShown |-> loaderShown]
           /\ FailureStep /\ lastEvent'.kind \in EarlyFailures =>
                  /\ alerts' = alerts + 1
                  /\ UNCHANGED <<widgets, priceChart, histogramChart, liveCharts,
                                 canvasText, priceData, hist>>]_vars

\* C16 witness: a populated dashboard with both charts, then an empty body
EarlyFailureWitness ==
    /\ build = "part_000"
    /\ lastEvent.op = "analysisFails"
    /\ lastEvent.kind = "empty"
    /\ alerts = 1
    /\ priceChart = 1
    /\ histogramChart = 2
    /\ liveCharts = {[id |-> 1, canvas |-> PriceCanvas], [id |-> 2, canvas |-> HistogramCanvas]}
    /\ widgets["news"].from = "analysis"

\* the symbol of the request issued last: every handler that selects a
\* symbol passes it to fetchFullAnalysis and then to connectWebSocket, and a
\* date change fetches the selected symbol again
LastRequested == sockets[Len(sockets)].symbol

\* every request has completed, none has failed
AllSucceeded == requestCount > 0 /\ requests = {} /\ Idle /\ alerts = 0

\* C17: once all overlapping requests have completed, the widgets and both
\* charts show the data of the request issued last, whatever the order of
\* the responses.
LatestSelectionWins ==
    AllSucceeded =>
        /\ \A w \in Widgets : widgets[w].symbol = LastRequested
        /\ lastEvent.op = "analysisCompletes" =>
               /\ historicalData = AnalysisOf(LastRequested, TRUE).historical_data
               /\ dailyReturns = AnalysisOf(LastRequested, TRUE).daily_returns_histogram

\* C19: between handlers the loader is visible exactly when at least one
\* analysis request is in flight.
LoaderTracksRequests == Idle => (loaderShown <=> requests # {})

====
